---- MODULE Spec2Model ----
(***************************************************************************)
(* interview_notify.py as a state machine: one scanner thread per watched  *)
(* directory (log_scan), the parser threads it spawns (log_parse over the  *)
(* tail generator), the analytics calls, and the notification path         *)
(* (notify, should_rate_limit, log_notification) with its process-wide     *)
(* lock and timestamp map.  The log producer, the file system and the wall *)
(* clock are the environment.  In the threads a line of a log is           *)
(* represented by the branch of log_parse's trigger chain it takes; the    *)
(* chain itself is modelled over the text of a line (Detect).  The main    *)
(* thread's single anon_telemetry call is not part of the model.           *)
(***************************************************************************)
EXTENDS Integers, Sequences, FiniteSets, TLC

\* ------------------------------------------------------------------ bounds
MaxAppend == 2      \* lines the log producer appends during a run
MaxTime == 2        \* the clock runs 0..MaxTime
Window == 2         \* --rate-limit, in ticks of the clock
MaxAppendMulti == 1 \* the producer's appends when two directories are watched
MaxAppendEnv == 1   \* the producer's writes when files are also removed
MaxDelete == 1      \* files removed during a run
MaxLineLen == 5     \* pieces of text in a line given to the trigger checks
MaxMsgLen == 3      \* pieces of text in the message of a kick line

Dirs == {"d1", "d2"}            \* candidate --log-dir values
FileNames == {"A", "B"}         \* log files a directory may hold
\* every rotation needs a write or a removal: at most MaxAppend writes, or
\* MaxAppendEnv lines written in two pieces and MaxDelete removals
MaxUnits ==
  1 + (IF MaxAppend > 2 * MaxAppendEnv + MaxDelete
         THEN MaxAppend ELSE 2 * MaxAppendEnv + MaxDelete)
Gens == 1..MaxUnits             \* the parser threads of one scanner, in spawn order
None == "None"
NoHolder == <<>>                \* notification_lock is not held

\* notification_type values used by log_parse
NotifTypes == {"your_interview", "interview", "mention", "disconnect", "netsplit", "kick"}
\* a line is represented by the branch of log_parse's if/elif chain it takes
LineKinds == {"mention", "kick", "none"}

\* The trigger checks of log_parse read the text of a line.  For them a line
\* is the concatenation of pieces of text, and `trigger in line` is true when
\* the pieces of the trigger occur next to each other in the line:
\*   "<"     an opening angle bracket
\*   ">"     a closing angle bracket and the blank after it
\*   "bot"   the configured bot nick (args.bot_nicks, default Gatekeeper)
\*   "ci"    "Currently interviewing: "
\*   "nick"  args.nick
\*   ":"     a colon
\*   "x"     any other text without blank
\*   " "     a blank
\*   "disc"  "Disconnected"
\*   "left"  "left IRC"
\*   "split" "*.net *.split"
\*   "kick", "Kick"  the word in lower case and capitalised
Tok == {"<", ">", "bot", "ci", "nick", ":", "x", " ", "disc", "left", "split",
        "kick", "Kick"}

\* the lines of at most n pieces out of T
LinesOver(T, n) == UNION {[1..l -> T] : l \in 0..n}
Lines == LinesOver(Tok, MaxLineLen)

\* the pieces of quit lines
TokNet == {"left", "split", "pt", "121", "9", "1", "secs", "x"}

\* "Ping timeout: 121 seconds" in pieces: "pt" is "Ping timeout: ", "121" and
\* "9" are numbers of seconds, "1" is the digit 1, "secs" is " seconds"
PingTimeout121 == <<"pt", "121", "secs">>
bot_nicks == {"bot"}

VARIABLES
  paths,                 \* args.paths: the watched directories
  rate_limit,            \* args.rate_limit
  notif_log,             \* args.notif_log is set
  check_bot_nicks,       \* args.check_bot_nicks
  enable_analytics,      \* args.enable_analytics (db is then the open store)
  det,                   \* a line of text, and the notify calls log_parse's
                         \* trigger chain makes for it
  present,               \* [dir -> set of files in it]
  content,               \* [dir -> [file -> sequence of lines]]
  mtime,                 \* [dir -> [file -> st_mtime]]
  partial,               \* [dir -> [file -> its last line has no newline yet]]
  removed,               \* [dir -> names of the files that were deleted]
  deletes,               \* removals the environment has left
  now,                   \* time()
  budget,                \* appends the producer has left
  scanner,               \* [dir -> [pc, curr, parser]]: log_scan's locals
  unit,                  \* [dir -> [gen -> parser thread: log_parse/tail/notify locals]]
  notification_lock,     \* NoHolder or the <<dir, gen>> holding the lock
  recent_notifications,  \* [type -> timestamp, -1 when the key is absent]
  delivered,             \* history: [dir -> lines handed to log_parse's loop body]
  attempts,              \* history: should_rate_limit calls, in lock order
  posts,                 \* history: requests.post calls
  audit,                 \* the notification log file's records
  tail_start,            \* history: [dir -> [gen -> lines in the file when tail
                         \* read it backwards, -1 before that]]
  db_calls,              \* history: the calls of db.record_* methods
  writes                 \* history: the writes log_notification attempted

vars == <<paths, rate_limit, notif_log, check_bot_nicks, enable_analytics, det,
          present, content, mtime, partial,
          removed, deletes, now, budget, deletes,
          scanner, unit, notification_lock, recent_notifications,
          delivered, attempts, posts, audit, tail_start, db_calls, writes>>

args == <<paths, rate_limit, notif_log, check_bot_nicks, enable_analytics>>
fsys == <<present, content, mtime, partial, removed>>
hist == <<delivered, attempts, posts, audit, tail_start, db_calls, writes>>
shared == <<notification_lock, recent_notifications>>

\* ----------------------------------------------------------------- helpers
Max(S) == CHOOSE x \in S : \A y \in S : y <= x

NoUnit ==
  \* late counts the lines tail yielded while the stop flag was set
  [pc |-> "unborn", stop |-> FALSE, file |-> None, pos |-> 0, mid |-> FALSE,
   cur |-> 0, part |-> None, line |-> None, resume |-> None, ntype |-> None,
   ctime |-> 0, late |-> 0]

\* a thread that ended keeps only how it ended
Ended(how) == [NoUnit EXCEPT !.pc = how]

Alive(u) == u.pc \notin {"unborn", "done", "crashed"}

CriticalTypes == {"your_interview", "disconnect", "kick"}

\* ------------------------------------------------------------------- Init
\* the state after argument parsing, before the scanner threads start.  A
\* watched directory is empty or holds log file A, whose content is in `logs`
InitWith(watched, appends, removals, logs) ==
  /\ paths = watched
  /\ rate_limit = Window
  /\ notif_log \in BOOLEAN
  /\ present \in [Dirs -> {{}, {"A"}}]
  /\ content \in [Dirs -> [FileNames -> {<<>>} \cup logs]]
  /\ \A d \in Dirs :
       /\ content[d]["B"] = <<>>
       /\ d \notin watched => present[d] = {}
       /\ content[d]["A"] \in (IF present[d] = {} THEN {<<>>} ELSE logs)
  /\ mtime = [d \in Dirs |-> [f \in FileNames |-> IF f \in present[d] THEN 1 ELSE 0]]
  /\ partial = [d \in Dirs |-> [f \in FileNames |-> FALSE]]
  /\ removed = [d \in Dirs |-> {}]
  /\ deletes = removals
  /\ now = 0
  /\ budget = appends
  /\ scanner = [d \in Dirs |-> [pc |-> "start", curr |-> None, parser |-> 0]]
  /\ unit = [d \in Dirs |-> [k \in Gens |-> NoUnit]]
  /\ notification_lock = NoHolder
  /\ recent_notifications = [t \in NotifTypes |-> -1]
  /\ delivered = [d \in Dirs |-> <<>>]
  /\ attempts = <<>>
  /\ posts = <<>>
  /\ audit = <<>>
  /\ tail_start = [d \in Dirs |-> [k \in Gens |-> -1]]
  /\ db_calls = <<>>
  /\ writes = <<>>

OneLine == {<<k>> : k \in LineKinds}

NoDet == [line |-> <<>>, done |-> FALSE, calls |-> <<>>,
          parent |-> <<"chan">>, name |-> <<"net", "log">>, raises |-> FALSE,
          channel |-> <<>>, stored |-> <<>>, raised |-> FALSE]

\* the defaults of the options the threads do not branch on
Defaults ==
  /\ check_bot_nicks = TRUE
  /\ enable_analytics = FALSE
  /\ det = NoDet

\* one watched directory
Init == InitWith({"d1"}, MaxAppend, 0, {<<>>} \cup OneLine) /\ Defaults

\* two watched directories, the last line of each log a mention
InitMulti == InitWith(Dirs, MaxAppendMulti, 0, {<<"mention">>}) /\ Defaults

\* one watched directory whose files may be removed
InitEnv == InitWith({"d1"}, MaxAppendEnv, MaxDelete, {<<>>} \cup OneLine) /\ Defaults

\* ------------------------------------------------------------- environment
\* the log producer appends a line to a file of a watched directory, creating
\* the file when it is not there; the write makes it the directory's newest.
\* The producer finishes a line it began before it writes the next one, and
\* gives a new file a name that was not used before
AppendLine(d, f, kind) ==
  /\ budget > 0
  /\ ~partial[d][f]
  /\ f \notin removed[d]
  /\ budget' = budget - 1
  /\ present' = [present EXCEPT ![d] = @ \cup {f}]
  /\ content' = [content EXCEPT ![d][f] = Append(@, kind)]
  /\ mtime' = [mtime EXCEPT ![d][f] = 1 + Max({mtime[d][g] : g \in FileNames})]
  /\ UNCHANGED <<args, det, partial, removed, deletes, now, scanner, unit, shared, hist>>

\* the producer writes the beginning of a line, without its newline
BeginLine(d, f, kind) ==
  /\ budget > 0
  /\ ~partial[d][f]
  /\ f \notin removed[d]
  /\ budget' = budget - 1
  /\ present' = [present EXCEPT ![d] = @ \cup {f}]
  /\ content' = [content EXCEPT ![d][f] = Append(@, kind)]
  /\ partial' = [partial EXCEPT ![d][f] = TRUE]
  /\ mtime' = [mtime EXCEPT ![d][f] = 1 + Max({mtime[d][g] : g \in FileNames})]
  /\ UNCHANGED <<args, det, removed, deletes, now, scanner, unit, shared, hist>>

\* the producer writes the rest of the line it began, with the newline
EndLine(d, f) ==
  /\ partial[d][f]
  /\ f \in present[d]
  /\ partial' = [partial EXCEPT ![d][f] = FALSE]
  /\ mtime' = [mtime EXCEPT ![d][f] = 1 + Max({mtime[d][g] : g \in FileNames})]
  /\ UNCHANGED <<args, det, present, content, removed, deletes, now, budget, scanner,
                 unit, shared, hist>>

\* a file is removed from its directory; a descriptor opened on it before
\* still reads what the file held
Delete(d, f) ==
  /\ deletes > 0
  /\ f \in present[d]
  /\ deletes' = deletes - 1
  /\ present' = [present EXCEPT ![d] = @ \ {f}]
  /\ removed' = [removed EXCEPT ![d] = @ \cup {f}]
  /\ UNCHANGED <<args, det, content, mtime, partial, now, budget, scanner, unit,
                 shared, hist>>

\* the producer (or anyone) changes the modification time of a file and not
\* its content
Touch(d, f) ==
  /\ budget > 0
  /\ f \in present[d]
  /\ budget' = budget - 1
  /\ mtime' = [mtime EXCEPT ![d][f] = 1 + Max({mtime[d][g] : g \in FileNames})]
  /\ UNCHANGED <<args, det, present, content, partial, removed, deletes, now,
                 scanner, unit, shared, hist>>

Tick ==
  /\ now < MaxTime
  /\ now' = now + 1
  /\ UNCHANGED <<args, det, fsys, budget, deletes, scanner, unit, shared, hist>>

\* ---------------------------------------------------------------- log_scan
\* a listing that still holds the files that were removed
find_latest_log_stale(d) ==
  {f \in present[d] \cup removed[d] :
     \A g \in present[d] \cup removed[d] : mtime[d][g] <= mtime[d][f]}

\* find_latest_log: the files max() may return (a tie is broken by iterdir order)
find_latest_log(d) ==
  {f \in present[d] : \A g \in present[d] : mtime[d][g] <= mtime[d][f]}

\* spawn_parser + parser.start(): a new thread entering log_parse/tail
spawn_parser(d, k, f) ==
  unit' = [unit EXCEPT ![d][k] = [NoUnit EXCEPT !.pc = "t_first", !.file = f]]

\* an exit that ends every scanner thread
crit_quit_all(d) == [e \in Dirs |-> [scanner[e] EXCEPT !.pc = "dead"]]

\* lines 312-314: sys.exit() raises SystemExit in the calling thread, the
\* scanner of d, and ends it
crit_quit(d) == [scanner EXCEPT ![d].pc = "dead"]

\* find_latest_log finds no file: crit_quit raises SystemExit in the scanner thread
ScanQuit(d) ==
  /\ scanner[d].pc \in {"start", "poll"}
  /\ present[d] = {}
  /\ scanner' = crit_quit(d)
  /\ UNCHANGED <<args, det, fsys, now, budget, deletes, unit, shared, hist>>

\* lines 54-57
ScanStart(d) ==
  /\ scanner[d].pc = "start"
  /\ \E latest \in find_latest_log(d) :
       /\ scanner' = [scanner EXCEPT ![d] = [pc |-> "poll", curr |-> latest, parser |-> 1]]
       /\ spawn_parser(d, 1, latest)
  /\ UNCHANGED <<args, det, fsys, now, budget, deletes, shared, hist>>

\* parser_stop.set() on the running thread's event
parser_stop_set(d) ==
  LET k == scanner[d].parser IN
  IF Alive(unit[d][k]) THEN [unit EXCEPT ![d][k].stop = TRUE] ELSE unit

\* a test that also holds when the parser thread has ended
DiffersOrEnded(d, latest) ==
  \/ scanner[d].curr # latest
  \/ ~Alive(unit[d][scanner[d].parser])

\* line 61: if curr != latest
Differs(d, latest) == scanner[d].curr # latest

\* lines 59-64: a poll that finds a latest file other than curr
ScanRotate(d) ==
  /\ scanner[d].pc = "poll"
  /\ \E latest \in find_latest_log(d) :
       /\ Differs(d, latest)
       /\ scanner' = [scanner EXCEPT ![d].curr = latest, ![d].pc = "join"]
       /\ unit' = parser_stop_set(d)
  /\ UNCHANGED <<args, det, fsys, now, budget, deletes, shared, hist>>

JoinedWithoutWaiting(d) == TRUE

\* parser.join() returns once the thread has ended
Joined(d) == ~Alive(unit[d][scanner[d].parser])

\* lines 65-67
ScanJoin(d) ==
  /\ scanner[d].pc = "join"
  /\ Joined(d)
  /\ scanner[d].parser < MaxUnits
  /\ scanner' = [scanner EXCEPT ![d].parser = @ + 1, ![d].pc = "poll"]
  /\ spawn_parser(d, scanner[d].parser + 1, scanner[d].curr)
  /\ UNCHANGED <<args, det, fsys, now, budget, deletes, shared, hist>>

\* -------------------------------------------------------------------- tail
\* the yields of unit u made with its stop flag set, one more being made
Late(u) == IF u.stop THEN u.late + 1 ELSE u.late

\* what a read that reaches line i of file f returns: the whole line with its
\* newline, or the text written so far when the line has no newline yet
Piece(d, f, i) ==
  IF i = Len(content[d][f]) /\ partial[d][f] THEN "head" ELSE "whole"

\* a forward read of the first line
ReadForwards(d, f) == IF content[d][f] = <<>> THEN 0 ELSE 1

\* line 140: the number of the line FileReadBackwards(path).readline() returns,
\* 0 for the empty string an empty file gives
ReadBackwards(d, f) == Len(content[d][f])

\* lines 139-142: FileReadBackwards(path).readline(), yielded when not empty
TailFirst(d, k) ==
  LET u == unit[d][k]
      n == ReadBackwards(d, u.file) IN
  /\ u.pc = "t_first"
  /\ unit' = [unit EXCEPT ![d][k] =
       IF u.file \notin present[d] THEN Ended("crashed")
       ELSE IF n > 0
         THEN [u EXCEPT !.pc = "p_line", !.cur = n, !.line = content[d][u.file][n],
                        !.part = Piece(d, u.file, n), !.resume = "t_open",
                        !.late = Late(u)]
         ELSE [u EXCEPT !.pc = "t_open"]]
  /\ tail_start' = IF u.file \in present[d]
                     THEN [tail_start EXCEPT ![d][k] = Len(content[d][u.file])]
                     ELSE tail_start
  /\ UNCHANGED <<args, det, fsys, now, budget, deletes, scanner, shared, delivered,
                 attempts, posts, audit, writes, db_calls>>

\* the file opened and read from its beginning
SeekStart(d, f) == 0

\* line 144: the position f.seek(0, 2) leaves, in lines
SeekEnd(d, f) == Len(content[d][f])

\* lines 143-144: open(path), f.seek(0, 2)
TailOpen(d, k) ==
  LET u == unit[d][k] IN
  /\ u.pc = "t_open"
  /\ unit' = [unit EXCEPT ![d][k] =
       IF u.file \notin present[d] THEN Ended("crashed")
       ELSE [u EXCEPT !.pc = "t_stop", !.pos = SeekEnd(d, u.file),
                      !.mid = partial[d][u.file], !.resume = None]]
  /\ UNCHANGED <<args, det, fsys, now, budget, deletes, scanner, shared, hist>>

\* a loop that never looks at the flag
is_set_ignored(u) == FALSE

\* line 145: parser_stop.is_set()
is_set(u) == u.stop

\* line 145: while not parser_stop.is_set()
TailStop(d, k) ==
  LET u == unit[d][k] IN
  /\ u.pc = "t_stop"
  /\ unit' = [unit EXCEPT ![d][k] =
       IF is_set(u) THEN Ended("done") ELSE [u EXCEPT !.pc = "t_read", !.resume = None]]
  /\ UNCHANGED <<args, det, fsys, now, budget, deletes, scanner, shared, hist>>

\* lines 146-150: f.readline(); an empty result sleeps and tests the flag again.
\* u.pos counts the lines the descriptor has entered and u.mid tells that it
\* stands inside line u.pos, behind the text written so far.  readline returns
\* what lies between the position and the next newline or the end of the file:
\* a whole line, the beginning of an unfinished line, or the rest of a line
\* whose beginning it returned before (represented as a line without trigger)
TailRead(d, k) ==
  LET u == unit[d][k]
      n == Len(content[d][u.file]) IN
  /\ u.pc = "t_read"
  /\ unit' = [unit EXCEPT ![d][k] =
       IF u.mid
         THEN IF u.pos = n /\ partial[d][u.file]
                THEN [u EXCEPT !.pc = "t_stop"]
                ELSE [u EXCEPT !.pc = "p_line", !.mid = FALSE, !.cur = u.pos,
                               !.part = "rest", !.line = "none", !.resume = "t_stop",
                               !.late = Late(u)]
       ELSE IF u.pos < n
         THEN [u EXCEPT !.pc = "p_line", !.pos = u.pos + 1, !.cur = u.pos + 1,
                        !.mid = (Piece(d, u.file, u.pos + 1) = "head"),
                        !.part = Piece(d, u.file, u.pos + 1),
                        !.line = content[d][u.file][u.pos + 1], !.resume = "t_stop",
                        !.late = Late(u)]
         ELSE [u EXCEPT !.pc = "t_stop"]]
  /\ UNCHANGED <<args, det, fsys, now, budget, deletes, scanner, shared, hist>>

\* --------------------------------------------------------------- log_parse
\* the notification_type of the branch a line takes in lines 118-135, None when
\* no check holds
Trigger(line) == IF line = "none" THEN None ELSE line

\* lines 102-115: the store call the analytics block makes for a line, None
\* when neither parse_interview_start nor parse_interview_outcome matches.  A
\* kick line is Gatekeeper's kick of the user with one of the known reasons
Analytics(line) == IF line = "kick" THEN "record_interview_outcome" ELSE None

\* lines 117-135: from the trigger chain up to the call of notify; a line
\* without trigger goes back into the generator
AfterAnalytics(u) ==
  IF Trigger(u.line) = None
    THEN [u EXCEPT !.pc = u.resume, !.resume = None, !.line = None, !.cur = 0,
                   !.part = None]
    ELSE [u EXCEPT !.pc = "rl_lock", !.ntype = Trigger(u.line)]

\* lines 97-135: one pass of the loop body over the line tail yielded, up to
\* the first store call when analytics is on and the line has an event, else
\* up to the call of notify
ParseLine(d, k) ==
  LET u == unit[d][k] IN
  /\ u.pc = "p_line"
  /\ delivered' = [delivered EXCEPT ![d] =
       Append(@, [gen |-> k, file |-> u.file, idx |-> u.cur, part |-> u.part])]
  /\ unit' = [unit EXCEPT ![d][k] =
       IF enable_analytics /\ Analytics(u.line) # None
         THEN [u EXCEPT !.pc = "db"]
         ELSE AfterAnalytics(u)]
  /\ UNCHANGED <<args, det, fsys, now, budget, deletes, scanner, shared, attempts, posts,
                 audit, writes, tail_start, db_calls>>

DbRecord(d, k, ok) ==
  [dir |-> d, gen |-> k, file |-> unit[d][k].file, idx |-> unit[d][k].cur,
   call |-> Analytics(unit[d][k].line), ok |-> ok]

\* lines 105-114: the db.record_* call returns
DbOk(d, k) ==
  /\ unit[d][k].pc = "db"
  /\ db_calls' = Append(db_calls, DbRecord(d, k, TRUE))
  /\ unit' = [unit EXCEPT ![d][k] = AfterAnalytics(unit[d][k])]
  /\ UNCHANGED <<args, det, fsys, now, budget, deletes, scanner, shared, delivered,
                 attempts, posts, audit, writes, tail_start>>

\* the thread's state after a db.record_* call raised: get_connection
\* re-raises (interview_database.py line 45) and nothing in log_parse catches
\* the exception, so it ends the thread
AfterDbRaised(u) == Ended("crashed")

\* lines 105-114: the db.record_* call raises (database locked, disk full, ...)
DbFail(d, k) ==
  /\ unit[d][k].pc = "db"
  /\ db_calls' = Append(db_calls, DbRecord(d, k, FALSE))
  /\ unit' = [unit EXCEPT ![d][k] = AfterDbRaised(unit[d][k])]
  /\ UNCHANGED <<args, det, fsys, now, budget, deletes, scanner, shared, delivered,
                 attempts, posts, audit, writes, tail_start>>

\* ---------------------------------------------------------- trigger checks
\* `pat in line`
Contains(line, pat) ==
  \E i \in 0..(Len(line) - Len(pat)) : SubSeq(line, i + 1, i + Len(pat)) = pat

\* lines 228-231: re.sub('<.*?>', '', text): every "<" up to the nearest ">"
\* after it is taken out; a "<" that no ">" follows stays
RECURSIVE remove_html_tags(_)
remove_html_tags(text) ==
  IF text = <<>> THEN <<>>
  ELSE LET close == {j \in 2..Len(text) : text[j] = ">"} IN
       IF text[1] = "<" /\ close # {}
         THEN remove_html_tags(SubSeq(text, 1 + (CHOOSE j \in close : \A l \in close : j <= l),
                                      Len(text)))
         ELSE <<text[1]>> \o remove_html_tags(Tail(text))

\* str.lower()
lower(text) ==
  [i \in DOMAIN text |->
     CASE text[i] = "Kick" -> "kick"
       [] text[i] = "Congrats" -> "congrats"
       [] text[i] = "ci" -> "ci_l"
       [] OTHER -> text[i]]

\* lines 233-236: '{}> {}'.format(nick, trigger) for the bot nicks
bot_nick_prefix(trigger) == {<<b, ">">> \o trigger : b \in bot_nicks}

\* lines 152-158
check_trigger(line, trigger, disregard_bot_nicks) ==
  IF disregard_bot_nicks \/ ~check_bot_nicks
    THEN Contains(remove_html_tags(line), trigger)
    ELSE \E t \in bot_nick_prefix(trigger) : Contains(line, t)

\* lines 160-171, called with triggers=['kick'], check_nick=True
check_words(line) ==
  \E b \in bot_nicks :
    /\ Contains(line, <<"nick">>)
    /\ Contains(line, <<b>>)
    /\ Contains(lower(line), lower(<<"kick">>))

\* the netsplit check without the test of 'left IRC'
check_netsplit_any(line) ==
  IF Contains(line, <<"split">>) THEN TRUE
  ELSE IF Contains(line, PingTimeout121) THEN TRUE
  ELSE FALSE

\* lines 173-183
check_netsplit(line) ==
  IF ~Contains(line, <<"left">>) THEN FALSE
  ELSE IF Contains(line, <<"split">>) THEN TRUE
  ELSE IF Contains(line, PingTimeout121) THEN TRUE
  ELSE FALSE

\* the six checks of lines 118-133 in the order of the chain
CheckHolds(line) ==
  <<check_trigger(line, <<"ci", "nick">>, FALSE),
    check_trigger(line, <<"ci">>, FALSE),
    check_trigger(line, <<"nick", ":">>, TRUE),
    Contains(line, <<"disc">>),
    check_netsplit(line),
    check_words(line)>>

\* the chain with the mention test in front
log_parse_mention_first(line) ==
  LET c == CheckHolds(line) IN
  IF c[3] THEN <<"mention">>
  ELSE IF c[1] THEN <<"your_interview">>
  ELSE IF c[2] THEN <<"interview">>
  ELSE IF c[4] THEN <<"disconnect">>
  ELSE IF c[5] THEN <<"netsplit">>
  ELSE IF c[6] THEN <<"kick">>
  ELSE <<>>

\* lines 118-135: the notification_type of every notify call the if/elif
\* chain makes for a line
log_parse_notifies(line) ==
  LET c == CheckHolds(line) IN
  IF c[1] THEN <<"your_interview">>
  ELSE IF c[2] THEN <<"interview">>
  ELSE IF c[3] THEN <<"mention">>
  ELSE IF c[4] THEN <<"disconnect">>
  ELSE IF c[5] THEN <<"netsplit">>
  ELSE IF c[6] THEN <<"kick">>
  ELSE <<>>

\* ------------------------------------------------- log_parse on one line
\* Further pieces of text, for the lines of the analytics block:
\*   "ci_l"      "currently interviewing: " (lower case)
\*   ":::"       " ::: "
\*   "59"        a number
\*   "rem"       " remaining in queue"
\*   "ed"        "ed " (after "kick": "kicked ")
\*   "from"      " from the channel "
\*   "(" ")"     parentheses
\*   "congrats"  "congratulations"      "Congrats"  "Congratulations"
\*   "welcome"   "welcome to"
\*   "notpassed" "not passed the interview"
\*   "younot"    "you have not passed"
\*   "missed"    "missed your interview"
\* The bot nick "bot" is Gatekeeper.
Blanked == {" ", "ci", "ci_l", ">", ":::", "rem", "ed", "from", "welcome",
            "notpassed", "younot", "missed", "left", "split", "pt", "secs"}

\* line 189: the regular expression of parse_interview_start matches at i,
\* the username ending before j and the second ":::" standing at k
StartAt(line, i, j, k) ==
  /\ lower(<<line[i]>>) = <<"ci_l">>
  /\ i + 1 < j /\ j < k /\ k + 2 <= Len(line)
  /\ line[j] = ":::"
  /\ line[k] = ":::" /\ line[k + 1] = "59" /\ line[k + 2] = "rem"
  /\ \A l \in (i + 1)..(j - 1) : line[l] \notin Blanked \cup {":"}

\* lines 185-198: the leftmost match, its ".*?" as short as can be
parse_interview_start(line) ==
  LET seps == {j \in DOMAIN line : line[j] = ":::"}
      at == {i \in DOMAIN line : \E j, k \in seps : StartAt(line, i, j, k)}
  IN IF at = {} THEN <<>>
     ELSE LET i == CHOOSE i \in at : \A o \in at : i <= o
              j == CHOOSE j \in seps : \E k \in seps : StartAt(line, i, j, k)
              ks == {k \in seps : StartAt(line, i, j, k)}
              k == CHOOSE k \in ks : \A o \in ks : k <= o
          IN <<[username |-> SubSeq(line, i + 1, j - 1),
                queue_length |-> line[k + 1]]>>

\* line 204: the regular expression of parse_interview_outcome matches at i,
\* "(" standing at p and ")" at the end of the line
KickAt(line, i, p) ==
  /\ i + 3 <= Len(line)
  /\ SubSeq(line, i, i + 3) = <<"bot", " ", "kick", "ed">>
  /\ i + 4 < p - 1 /\ p + 1 < Len(line)
  /\ \A l \in (i + 4)..(p - 2) : line[l] \notin Blanked
  /\ line[p - 1] = "from" /\ line[p] = "("
  /\ line[Len(line)] = ")"

\* the outcome with the test for failed in front
outcome_failed_first(message) ==
  LET message_lower == lower(message) IN
  IF \/ Contains(message_lower, <<"notpassed">>)
     \/ Contains(message_lower, <<"younot">>) THEN "failed"
  ELSE IF /\ Contains(message_lower, <<"congrats">>)
          /\ Contains(message_lower, <<"welcome">>) THEN "passed"
  ELSE IF Contains(message_lower, <<"missed">>) THEN "missed"
  ELSE None

\* lines 212-219
outcome_of(message) ==
  LET message_lower == lower(message) IN
  IF /\ Contains(message_lower, <<"congrats">>)
     /\ Contains(message_lower, <<"welcome">>) THEN "passed"
  ELSE IF \/ Contains(message_lower, <<"notpassed">>)
          \/ Contains(message_lower, <<"younot">>) THEN "failed"
  ELSE IF Contains(message_lower, <<"missed">>) THEN "missed"
  ELSE None

\* lines 200-226: the leftmost match
parse_interview_outcome(line) ==
  LET opens == {p \in DOMAIN line : line[p] = "("}
      at == {i \in DOMAIN line : \E p \in opens : KickAt(line, i, p)}
  IN IF at = {} THEN <<>>
     ELSE LET i == CHOOSE i \in at : \A o \in at : i <= o
              p == CHOOSE p \in opens : KickAt(line, i, p)
              message == SubSeq(line, p + 1, Len(line) - 1)
              outcome == outcome_of(message)
          IN IF outcome = None THEN <<>>
             ELSE <<[username |-> SubSeq(line, i + 4, p - 2),
                     outcome |-> outcome,
                     message |-> message]>>

\* pathlib's stem of a file name given as its parts between dots: the name
\* up to its last dot, the whole name when that dot is first or last
stem(name) ==
  LET n == Len(name) IN
  IF n >= 2 /\ name[n] # "" /\ SubSeq(name, 1, n - 1) # <<"">>
    THEN SubSeq(name, 1, n - 1)
    ELSE name

\* line 92: '', '.', '..', 'logs' and 'Channels' as parts between dots
Generic == {<<"">>, <<"", "">>, <<"", "", "">>, <<"logs">>, <<"Channels">>}

\* the channel when every directory name is taken as it is
channel_of_parent(parent, name, raises) ==
  IF raises THEN <<"unknown">> ELSE parent

\* lines 89-95
channel_of(parent, name, raises) ==
  IF raises THEN <<"unknown">>
  ELSE IF parent \in Generic THEN stem(name)
  ELSE parent

\* lines 103-114: the calls of the analytics block on a line, in order
StoreCalls(line, channel) ==
  LET start == parse_interview_start(line)
      outcome == parse_interview_outcome(line)
      call == [op |-> None, username |-> <<>>, queue_length |-> None,
               outcome |-> None, message |-> <<>>, channel |-> channel]
  IN (IF start = <<>> THEN <<>>
      ELSE <<[call EXCEPT !.op = "record_interview_start",
                          !.username = start[1].username,
                          !.queue_length = start[1].queue_length],
             [call EXCEPT !.op = "record_queue_snapshot",
                          !.queue_length = start[1].queue_length]>>)
     \o
     (IF outcome = <<>> THEN <<>>
      ELSE <<[call EXCEPT !.op = "record_interview_outcome",
                          !.username = outcome[1].username,
                          !.outcome = outcome[1].outcome,
                          !.message = outcome[1].message]>>)

\* line 101: if db and args.enable_analytics
StoreCallsIfEnabled(line, channel) ==
  IF enable_analytics THEN StoreCalls(line, channel) ELSE <<>>

\* lines 87-135 for a file of one line: the channel, the analytics block and
\* the if/elif chain; the store call number fail raises (none when fail = 0),
\* which ends the thread (interview_database.py line 45)
log_parse_line(fail) ==
  LET channel == channel_of(det.parent, det.name, det.raises)
      calls == StoreCallsIfEnabled(det.line, channel)
  IN /\ ~det.done
     /\ fail <= Len(calls)
     /\ det' = [det EXCEPT
                  !.done = TRUE,
                  !.channel = channel,
                  !.stored = IF fail = 0 THEN calls ELSE SubSeq(calls, 1, fail),
                  !.raised = fail # 0,
                  !.calls = IF fail = 0 THEN log_parse_notifies(det.line)
                            ELSE <<>>]
     /\ UNCHANGED <<args, fsys, deletes, now, budget, scanner, unit, shared, hist>>

\* the chain of lines 118-135 applied to the line under test
Detect ==
  /\ ~det.done
  /\ det' = [det EXCEPT !.done = TRUE, !.calls = log_parse_notifies(det.line)]
  /\ UNCHANGED <<args, fsys, deletes, now, budget, scanner, unit, shared, hist>>

\* ------------------------------------------------------------------ notify
\* notify returns to log_parse, whose for loop resumes the generator
Returned(u) ==
  [u EXCEPT !.pc = u.resume, !.resume = None, !.line = None, !.cur = 0,
            !.part = None, !.ntype = None, !.ctime = 0]

LockNotTested(d, k) == TRUE

\* notification_lock can be acquired by unit <<d, k>>
LockFree(d, k) == notification_lock = NoHolder

\* line 262: with notification_lock
RlLock(d, k) ==
  LET u == unit[d][k] IN
  /\ u.pc = "rl_lock"
  /\ LockFree(d, k)
  /\ notification_lock' = <<d, k>>
  /\ unit' = [unit EXCEPT ![d][k].pc = "rl_check"]
  /\ UNCHANGED <<args, det, fsys, now, budget, deletes, scanner, recent_notifications, hist>>

\* the window test one tick short
should_rate_limit_short(notification_type, current_time, recent, limit) ==
  IF notification_type \in CriticalTypes THEN FALSE
  ELSE /\ recent[notification_type] # -1
       /\ current_time - recent[notification_type] < limit - 1

\* the window test applied to every type
should_rate_limit_all(notification_type, current_time, recent, limit) ==
  /\ recent[notification_type] # -1
  /\ current_time - recent[notification_type] < limit

\* lines 266-274: TRUE when the notification is to be suppressed
should_rate_limit(notification_type, current_time, recent, limit) ==
  IF notification_type \in CriticalTypes THEN FALSE
  ELSE /\ recent[notification_type] # -1
       /\ current_time - recent[notification_type] < limit

\* the timestamp refreshed by a suppressed attempt too
RecentRefreshedWhenLimited(notification_type, current_time, recent) ==
  [recent EXCEPT ![notification_type] = current_time]

\* lines 271-274: the map as the suppressing return leaves it
RecentWhenLimited(notification_type, current_time, recent) == recent

\* an accepting return that leaves the timestamp for later
RecentNotStoredWhenAccepted(notification_type, current_time, recent) == recent

\* lines 267 and 277: the map as an accepting return leaves it
RecentWhenAccepted(notification_type, current_time, recent) ==
  [recent EXCEPT ![notification_type] = current_time]

LockKeptAfterCheck(d, k) == <<d, k>>

\* the lock as should_rate_limit leaves it on return
LockAfterCheck(d, k) == NoHolder

\* a map of each directory's own: the times of the attempts its units had
\* accepted
RecentOfOwn(d) ==
  [c \in NotifTypes |->
     LET own == {i \in DOMAIN attempts :
                   attempts[i].dir = d /\ attempts[i].type = c /\ attempts[i].ok}
     IN IF own = {} THEN -1
        ELSE attempts[CHOOSE i \in own : \A o \in own : o <= i].t]

\* lines 21-23 and 270: the map a unit of directory d consults is the one
\* module-level dict
RecentOf(d) == recent_notifications

\* lines 263-274: current_time = time() and the test; a suppressing return
\* leaves the with block and notify returns at line 246
RlCheck(d, k) ==
  LET u == unit[d][k]
      limited == should_rate_limit(u.ntype, now, RecentOf(d), rate_limit) IN
  /\ u.pc = "rl_check"
  /\ attempts' = Append(attempts,
       [dir |-> d, gen |-> k, type |-> u.ntype, file |-> u.file, idx |-> u.cur,
        t |-> now, ok |-> ~limited])
  /\ IF limited
       THEN /\ recent_notifications' =
                 RecentWhenLimited(u.ntype, now, recent_notifications)
            /\ notification_lock' = LockAfterCheck(d, k)
            /\ unit' = [unit EXCEPT ![d][k] = Returned(u)]
       ELSE /\ unit' = [unit EXCEPT ![d][k] = [u EXCEPT !.pc = "rl_set", !.ctime = now]]
            /\ UNCHANGED shared
  /\ UNCHANGED <<args, det, fsys, now, budget, deletes, scanner, delivered, posts, audit, writes, tail_start, db_calls>>

\* lines 267-268 and 277-278: store the timestamp, leave the with block
RlSet(d, k) ==
  LET u == unit[d][k] IN
  /\ u.pc = "rl_set"
  /\ recent_notifications' = RecentWhenAccepted(u.ntype, u.ctime, recent_notifications)
  /\ notification_lock' = LockAfterCheck(d, k)
  /\ unit' = [unit EXCEPT ![d][k].pc = "post"]
  /\ UNCHANGED <<args, det, fsys, now, budget, deletes, scanner, hist>>

PostRecord(d, k, ok) ==
  [dir |-> d, gen |-> k, type |-> unit[d][k].ntype, file |-> unit[d][k].file,
   idx |-> unit[d][k].cur, ok |-> ok]

\* lines 249-255: requests.post returns
PostOk(d, k) ==
  /\ unit[d][k].pc = "post"
  /\ posts' = Append(posts, PostRecord(d, k, TRUE))
  /\ unit' = [unit EXCEPT ![d][k].pc = "log_lock"]
  /\ UNCHANGED <<args, det, fsys, now, budget, deletes, scanner, shared, delivered, attempts, audit, writes, tail_start, db_calls>>

\* a failed post that is followed by log_notification all the same
AfterPostRaisedLogged(u) == [u EXCEPT !.pc = "log_lock"]

\* the thread's state after requests.post raised: nothing in notify or log_parse
\* catches the exception, so it ends the thread
AfterPostRaised(u) == Ended("crashed")

\* lines 253-255: requests.post raises (connection error, timeout, ...)
PostFail(d, k) ==
  /\ unit[d][k].pc = "post"
  /\ posts' = Append(posts, PostRecord(d, k, FALSE))
  /\ unit' = [unit EXCEPT ![d][k] = AfterPostRaised(unit[d][k])]
  /\ UNCHANGED <<args, det, fsys, now, budget, deletes, scanner, shared, delivered, attempts, audit, writes, tail_start, db_calls>>

\* lines 282-283: no notification log is configured
LogSkip(d, k) ==
  /\ unit[d][k].pc = "log_lock"
  /\ ~notif_log
  /\ unit' = [unit EXCEPT ![d][k] = Returned(unit[d][k])]
  /\ UNCHANGED <<args, det, fsys, now, budget, deletes, scanner, shared, hist>>

\* lines 285-291: build the entry, with notification_lock
LogLock(d, k) ==
  /\ unit[d][k].pc = "log_lock"
  /\ notif_log
  /\ LockFree(d, k)
  /\ notification_lock' = <<d, k>>
  /\ unit' = [unit EXCEPT ![d][k].pc = "log_write"]
  /\ UNCHANGED <<args, det, fsys, now, budget, deletes, scanner, recent_notifications, hist>>

WriteRecord(d, k, ok) ==
  [dir |-> d, gen |-> k, type |-> unit[d][k].ntype, file |-> unit[d][k].file,
   idx |-> unit[d][k].cur, ok |-> ok]

\* lines 292-293: the record is appended; both with blocks are left
LogWriteOk(d, k) ==
  /\ unit[d][k].pc = "log_write"
  /\ audit' = Append(audit, [dir |-> d, gen |-> k, type |-> unit[d][k].ntype,
                             file |-> unit[d][k].file, idx |-> unit[d][k].cur])
  /\ writes' = Append(writes, WriteRecord(d, k, TRUE))
  /\ notification_lock' = NoHolder
  /\ unit' = [unit EXCEPT ![d][k] = Returned(unit[d][k])]
  /\ UNCHANGED <<args, det, fsys, now, budget, deletes, scanner, recent_notifications,
                 delivered, attempts, posts, tail_start, db_calls>>

\* a write error that nothing catches
AfterWriteRaisedUncaught(u) == Ended("crashed")

\* lines 294-295: the except clause logs the error, log_notification and
\* notify return
AfterWriteRaised(u) == Returned(u)

\* lines 292-295: open or write raises; the with block releases the lock and
\* the except clause logs the error
LogWriteFail(d, k) ==
  /\ unit[d][k].pc = "log_write"
  /\ writes' = Append(writes, WriteRecord(d, k, FALSE))
  /\ notification_lock' = NoHolder
  /\ unit' = [unit EXCEPT ![d][k] = AfterWriteRaised(unit[d][k])]
  /\ UNCHANGED <<args, det, fsys, now, budget, deletes, scanner, recent_notifications,
                 delivered, attempts, posts, audit, tail_start, db_calls>>

\* ------------------------------------------------------------ specification
Next ==
  \/ \E d \in paths, f \in FileNames, kind \in LineKinds : AppendLine(d, f, kind)
  \/ Tick
  \/ \E d \in paths : ScanQuit(d)
  \/ \E d \in paths : ScanStart(d)
  \/ \E d \in paths : ScanRotate(d)
  \/ \E d \in paths : ScanJoin(d)
  \/ \E d \in paths, k \in Gens : TailFirst(d, k)
  \/ \E d \in paths, k \in Gens : TailOpen(d, k)
  \/ \E d \in paths, k \in Gens : TailStop(d, k)
  \/ \E d \in paths, k \in Gens : TailRead(d, k)
  \/ \E d \in paths, k \in Gens : ParseLine(d, k)
  \/ \E d \in paths, k \in Gens : RlLock(d, k)
  \/ \E d \in paths, k \in Gens : RlCheck(d, k)
  \/ \E d \in paths, k \in Gens : RlSet(d, k)
  \/ \E d \in paths, k \in Gens : PostOk(d, k)
  \/ \E d \in paths, k \in Gens : PostFail(d, k)
  \/ \E d \in paths, k \in Gens : LogSkip(d, k)
  \/ \E d \in paths, k \in Gens : LogLock(d, k)
  \/ \E d \in paths, k \in Gens : LogWriteOk(d, k)
  \/ \E d \in paths, k \in Gens : LogWriteFail(d, k)

\* the program with an environment that also writes lines in two pieces and
\* removes files
NextEnv ==
  \/ Next
  \/ \E d \in paths, f \in FileNames, kind \in LineKinds : BeginLine(d, f, kind)
  \/ \E d \in paths, f \in FileNames : EndLine(d, f)
  \/ \E d \in paths, f \in FileNames : Delete(d, f)

Spec == Init /\ [][Next]_vars

SpecEnv == InitEnv /\ [][NextEnv]_vars

\* the steps of the scanner thread of watched directory d
ScannerStep(d) ==
  /\ d \in paths
  /\ ScanQuit(d) \/ ScanStart(d) \/ ScanRotate(d) \/ ScanJoin(d)

\* the steps of parser thread <<d, k>>
UnitStep(d, k) ==
  /\ d \in paths
  /\ \/ DbOk(d, k) \/ DbFail(d, k)
     \/ TailFirst(d, k) \/ TailOpen(d, k) \/ TailStop(d, k) \/ TailRead(d, k)
     \/ ParseLine(d, k) \/ RlLock(d, k) \/ RlCheck(d, k) \/ RlSet(d, k)
     \/ PostOk(d, k) \/ PostFail(d, k)
     \/ LogSkip(d, k) \/ LogLock(d, k) \/ LogWriteOk(d, k) \/ LogWriteFail(d, k)

\* every thread that can take a step eventually takes one: the interpreter
\* switches threads, sleep() returns, and the blocking calls (requests.post,
\* the file write) return or raise
Fairness ==
  /\ \A d \in Dirs : WF_vars(ScannerStep(d))
  /\ \A d \in Dirs, k \in Gens : WF_vars(UnitStep(d, k))

\* one watched directory whose log ends with a kick line
InitFair == InitWith({"d1"}, MaxAppend, 0, {<<"kick">>}) /\ Defaults

\* the trigger chain alone, over every line of at most MaxLineLen pieces and
\* both values of --check-bot-nicks
InitDetect ==
  /\ InitWith({}, 0, 0, {<<>>})
  /\ notif_log = FALSE
  /\ check_bot_nicks \in BOOLEAN
  /\ enable_analytics = FALSE
  /\ det \in {[NoDet EXCEPT !.line = l] : l \in Lines}

\* the trigger chain over the quit lines
InitNetsplit ==
  /\ InitWith({}, 0, 0, {<<>>})
  /\ notif_log = FALSE
  /\ check_bot_nicks \in BOOLEAN
  /\ enable_analytics = FALSE
  /\ det \in {[NoDet EXCEPT !.line = l] : l \in LinesOver(TokNet, MaxLineLen)}

NextDetect == Detect

\* start lines: with and without the bot's tag, in either case, with several
\* usernames, with and without the second ":::", the number and the ending
StartLines ==
  {pre \o <<c>> \o user \o mid \o rest :
     pre \in {<<>>, <<"bot", ">">>}, c \in {"ci", "ci_l"},
     user \in {<<"nick">>, <<"nick", "x">>, <<"x">>, <<>>, <<"nick", ":">>},
     mid \in {<<":::", ":::">>, <<":::", "x", ":::">>, <<":::">>},
     rest \in {<<"59", "rem">>, <<"59">>, <<"x", "rem">>}}

MsgTok == {"congrats", "Congrats", "welcome", "notpassed", "younot", "missed",
           "x", ")"}

\* kick lines: of the self nick and of another user, with "Kicked", without
\* "from the channel", with every message of at most MaxMsgLen pieces, with
\* and without the closing parenthesis at the end
KickLines ==
  {head \o msg \o rest :
     head \in {<<"bot", " ", "kick", "ed", "nick", "from", "(">>,
               <<"bot", " ", "kick", "ed", "x", "from", "(">>,
               <<"bot", " ", "Kick", "ed", "nick", "from", "(">>,
               <<"bot", " ", "kick", "ed", "nick", "(">>},
     msg \in LinesOver(MsgTok, MaxMsgLen),
     rest \in {<<")">>, <<>>, <<")", "x">>}}

\* a file with one line in a directory
InitParse(lines, parents, names, except) ==
  /\ InitWith({}, 0, 0, {<<>>})
  /\ notif_log = FALSE
  /\ check_bot_nicks \in BOOLEAN
  /\ enable_analytics \in BOOLEAN
  /\ det \in {[NoDet EXCEPT !.line = l, !.parent = p, !.name = n, !.raises = r] :
               l \in lines, p \in parents, n \in names, r \in except}

\* start and kick lines in a directory with a name of its own and in one
\* named logs
InitAnalytics ==
  /\ InitParse(StartLines \cup KickLines, {<<"chan">>, <<"logs">>},
               {<<"net", "log">>}, {FALSE})
  /\ check_bot_nicks

\* directories named '', '..', logs, Channels, chan and a.b; files named
\* net.log, net, .log, net., logs.txt and a.b.log
InitChannel ==
  InitParse({<<>>, <<"nick", ":">>},
            {<<"">>, <<"", "", "">>, <<"logs">>, <<"Channels">>, <<"chan">>,
             <<"a", "b">>},
            {<<"net", "log">>, <<"net">>, <<"", "log">>, <<"net", "">>,
             <<"logs", "txt">>, <<"a", "b", "log">>},
            BOOLEAN)

NextParse == \E fail \in 0..3 : log_parse_line(fail)

SpecAnalytics == InitAnalytics /\ [][NextParse]_vars

SpecChannel == InitChannel /\ [][NextParse]_vars

SpecNetsplit == InitNetsplit /\ [][NextDetect]_vars

SpecDetect == InitDetect /\ [][NextDetect]_vars

\* one watched directory, analytics on or off
InitAn ==
  /\ InitWith({"d1"}, MaxAppend, 0, {<<>>} \cup OneLine)
  /\ check_bot_nicks = TRUE
  /\ enable_analytics \in BOOLEAN
  /\ det = NoDet

\* the program with the steps of the analytics store
NextAn ==
  \/ Next
  \/ \E d \in paths, k \in Gens : DbOk(d, k)
  \/ \E d \in paths, k \in Gens : DbFail(d, k)

SpecAn == InitAn /\ [][NextAn]_vars

\* the program with a producer that also touches files
NextTouch ==
  \/ Next
  \/ \E d \in paths, f \in FileNames : Touch(d, f)

SpecTouch == Init /\ [][NextTouch]_vars

SpecFair == InitFair /\ [][Next]_vars /\ Fairness

\* one watched directory whose log ends with a kick line and may be removed
InitEnvFair == InitWith({"d1"}, MaxAppendEnv, MaxDelete, {<<"kick">>}) /\ Defaults

SpecEnvFair == InitEnvFair /\ [][NextEnv]_vars /\ Fairness

SpecMulti == InitMulti /\ [][Next]_vars

\* ================================================================== claims
AliveUnits(d) == {k \in Gens : Alive(unit[d][k])}

\* the generations of a sequence of history records never decrease
GensInOrder(h, d) ==
  \A i, j \in DOMAIN h :
    (i < j /\ h[i].dir = d /\ h[j].dir = d) => h[i].gen <= h[j].gen

\* C1: in every reachable state a watched directory has at most one live
\* Tailer+Detector unit, and it is the one the scanner started last; while the
\* scanner waits in join the old unit's stop flag is set; and within a
\* directory no line is handled and no notification posted by an older unit
\* after a newer unit has handled a line or posted.
C1_OneUnitPerDirectory ==
  \A d \in Dirs :
    /\ Cardinality(AliveUnits(d)) <= 1
    /\ \A k \in AliveUnits(d) : k = scanner[d].parser
    /\ scanner[d].pc = "join" =>
         \A k \in AliveUnits(d) : unit[d][k].stop
    /\ \A i, j \in DOMAIN delivered[d] :
         i < j => delivered[d][i].gen <= delivered[d][j].gen
    /\ GensInOrder(posts, d)

\* a rotation after which both the old and the new unit have posted
C1_Witness ==
  \E d \in Dirs : \E i, j \in DOMAIN posts :
    /\ posts[i].dir = d /\ posts[i].gen = 1
    /\ posts[j].dir = d /\ posts[j].gen = 2
    /\ unit[d][1].pc = "done"
    /\ Alive(unit[d][2])

\* the line numbers unit <<d, k>> handed to log_parse's loop body, in order
RECURSIVE GotBy(_, _)
GotBy(h, k) ==
  IF h = <<>> THEN <<>>
  ELSE IF h[1].gen = k THEN <<h[1].idx>> \o GotBy(Tail(h), k)
  ELSE GotBy(Tail(h), k)

\* unit u polls its file and has read up to its end
CaughtUp(d, u) ==
  /\ u.pc \in {"t_stop", "t_read"}
  /\ u.pos = Len(content[d][u.file])

\* C2: whenever a Tailer has read its file up to the end, the lines it
\* delivered are, from the first one it yielded, every line of the file once
\* and in file order (a line appended during startup included): they are the
\* numbers s, s+1, ..., n for the n lines of the file, and some line was
\* delivered when the file is not empty.
C2_EveryLineOnceInOrder ==
  \A d \in Dirs, k \in Gens :
    LET u == unit[d][k]
        got == GotBy(delivered[d], k)
        n == Len(content[d][u.file]) IN
    CaughtUp(d, u) =>
      /\ n > 0 => got # <<>>
      /\ \A i \in DOMAIN got : got[i] = n - Len(got) + i

WasDelivered(d, f, i) ==
  \E e \in DOMAIN delivered[d] : delivered[d][e].file = f /\ delivered[d][e].idx = i

\* C3: a rotation loses no line: a Tailer whose stop flag is set does not
\* leave its loop with a line of its file unread, and once the Tailer a
\* rotation started polls, every line its file held by then was delivered.
C3_RotationWithoutLoss ==
  \A d \in Dirs, k \in Gens :
    LET u == unit[d][k] IN
    /\ (u.pc = "t_stop" /\ u.stop) => u.pos = Len(content[d][u.file])
    /\ (k > 1 /\ u.pc \in {"t_stop", "t_read"}) =>
         \A i \in 1..u.pos : WasDelivered(d, u.file, i)

\* C4: over any sequence of rotations no line of a file is delivered twice.
C4_NoLineDeliveredTwice ==
  \A d \in Dirs : \A i, j \in DOMAIN delivered[d] :
    (delivered[d][i].file = delivered[d][j].file
       /\ delivered[d][i].idx = delivered[d][j].idx) => i = j

\* C5: a unit whose transport call failed stays alive.
C5_TransportFailureKeepsUnitAlive ==
  \A i \in DOMAIN posts :
    ~posts[i].ok => unit[posts[i].dir][posts[i].gen].pc # "crashed"

\* ------------------------------------------------------- rate limiting claims
SameLine(a, b) ==
  a.dir = b.dir /\ a.gen = b.gen /\ a.file = b.file /\ a.idx = b.idx

\* should_rate_limit has returned for the attempt at position i of attempts
\* (the last call may still be inside the with block, before line 267/277)
Settled(i) ==
  ~(i = Len(attempts) /\ unit[attempts[i].dir][attempts[i].gen].pc = "rl_set")

\* the accepted attempts of type c before position j
AcceptedBefore(c, j) ==
  {i \in 1..(j - 1) : attempts[i].type = c /\ attempts[i].ok}

\* C6: any two accepted attempts of one non-critical category lie at least
\* rate_limit apart, and every transport call and every audit record belongs
\* to an accepted attempt (a suppressed attempt makes neither).
C6_AcceptedSendsWindowApart ==
  /\ \A i, j \in DOMAIN attempts :
       (i < j /\ attempts[i].type = attempts[j].type
          /\ attempts[i].type \notin CriticalTypes
          /\ attempts[i].ok /\ attempts[j].ok)
       => attempts[j].t - attempts[i].t >= rate_limit
  /\ \A p \in DOMAIN posts :
       \E i \in DOMAIN attempts : attempts[i].ok /\ SameLine(attempts[i], posts[p])
  /\ \A r \in DOMAIN audit :
       \E i \in DOMAIN attempts : attempts[i].ok /\ SameLine(attempts[i], audit[r])

\* a mention accepted, a later one suppressed inside the window, a third one
\* accepted when the window is over
C6_Witness ==
  \E i, j, l \in DOMAIN attempts :
    /\ i < j /\ j < l
    /\ attempts[i].type = "mention" /\ attempts[j].type = "mention"
    /\ attempts[l].type = "mention"
    /\ attempts[i].ok /\ ~attempts[j].ok /\ attempts[l].ok
    /\ attempts[j].t - attempts[i].t < rate_limit
    /\ Len(posts) >= 2

\* C7: an attempt of a critical category is never suppressed, and once
\* should_rate_limit has returned for it the category's timestamp is the time
\* that call read, until the category's next attempt.
C7_CriticalAlwaysSent ==
  /\ \A i \in DOMAIN attempts :
       attempts[i].type \in CriticalTypes => attempts[i].ok
  /\ \A c \in CriticalTypes :
       LET mine == {i \in DOMAIN attempts : attempts[i].type = c} IN
       (mine # {} /\ Settled(Max(mine))) =>
         recent_notifications[c] = attempts[Max(mine)].t

\* a kick accepted less than a window after the previous kick
C7_Witness ==
  \E i, j \in DOMAIN attempts :
    /\ i < j
    /\ attempts[i].type = "kick" /\ attempts[j].type = "kick"
    /\ attempts[i].ok /\ attempts[j].ok
    /\ attempts[j].t - attempts[i].t < rate_limit
    /\ attempts[j].t > attempts[i].t
    /\ Settled(j)

\* C8: the timestamp of a non-critical category is the time of its last
\* accepted attempt, whatever suppressed attempts followed it, and an attempt
\* made at least rate_limit after the last accepted one (or with none before
\* it) is accepted.
C8_WindowFromLastAccepted ==
  /\ \A c \in NotifTypes \ CriticalTypes :
       LET acc == {i \in DOMAIN attempts :
                     attempts[i].type = c /\ attempts[i].ok /\ Settled(i)} IN
       recent_notifications[c] = (IF acc = {} THEN -1 ELSE attempts[Max(acc)].t)
  /\ \A j \in DOMAIN attempts :
       LET c == attempts[j].type
           acc == AcceptedBefore(c, j) IN
       (c \notin CriticalTypes
          /\ (acc = {} \/ attempts[j].t - attempts[Max(acc)].t >= rate_limit))
       => attempts[j].ok

\* a mention accepted a full window after the last accepted one although a
\* suppressed attempt lies less than a window back
C8_Witness ==
  \E i, j, l \in DOMAIN attempts :
    /\ i < j /\ j < l
    /\ attempts[i].type = "mention" /\ attempts[j].type = "mention"
    /\ attempts[l].type = "mention"
    /\ attempts[i].ok /\ ~attempts[j].ok /\ attempts[l].ok
    /\ attempts[l].t - attempts[j].t < rate_limit
    /\ Settled(l)

InLock(u) == u.pc \in {"rl_check", "rl_set", "log_write"}

\* C9: at most one unit is inside a with notification_lock block and it is the
\* lock's holder; of the attempts two units of different directories make in
\* one non-critical category less than rate_limit apart, at most one is
\* accepted.
C9_CheckAndUpdateAtomic ==
  /\ \A d1, d2 \in Dirs, k1, k2 \in Gens :
       (InLock(unit[d1][k1]) /\ InLock(unit[d2][k2])) => (d1 = d2 /\ k1 = k2)
  /\ \A d \in Dirs, k \in Gens :
       InLock(unit[d][k]) <=> notification_lock = <<d, k>>
  /\ \A i, j \in DOMAIN attempts :
       (i < j /\ attempts[i].dir # attempts[j].dir
          /\ attempts[i].type = attempts[j].type
          /\ attempts[i].type \notin CriticalTypes
          /\ attempts[j].t - attempts[i].t < rate_limit)
       => ~(attempts[i].ok /\ attempts[j].ok)

\* the unit of one directory has accepted a mention and not yet stored its
\* timestamp while the unit of the other waits for the lock with a mention
C9_Witness ==
  \E d1, d2 \in Dirs, k1, k2 \in Gens :
    /\ d1 # d2
    /\ unit[d1][k1].pc = "rl_set" /\ unit[d1][k1].ntype = "mention"
    /\ unit[d2][k2].pc = "rl_lock" /\ unit[d2][k2].ntype = "mention"

\* C10: a unit inside the transport call does not hold the lock, so a unit
\* that waits for the lock is never kept waiting by one that is posting.
C10_NoLockAcrossTransport ==
  /\ \A d \in Dirs, k \in Gens :
       unit[d][k].pc = "post" => notification_lock # <<d, k>>
  /\ notification_lock # NoHolder =>
       unit[notification_lock[1]][notification_lock[2]].pc # "post"

\* one unit is inside the transport call while the unit of the other directory
\* holds the lock for its check
C10_Witness ==
  \E d1, d2 \in Dirs, k1, k2 \in Gens :
    /\ d1 # d2
    /\ unit[d1][k1].pc = "post"
    /\ unit[d2][k2].pc = "rl_check"
    /\ notification_lock = <<d2, k2>>

\* ------------------------------------------------------------- tail claims
\* the line numbers tail has yielded in unit <<d, k>>: those log_parse's loop
\* body has taken and the one it is about to take
Yielded(d, k) ==
  GotBy(delivered[d], k)
    \o (IF unit[d][k].pc = "p_line" THEN <<unit[d][k].cur>> ELSE <<>>)

\* C13: a Tailer started on a file of n > 0 lines yields line n first, and
\* every other line it yields has a number above n (none of lines 1..n-1);
\* started on an empty file it yields only lines appended afterwards.
C13_ReplayIsLastLineOnly ==
  \A d \in Dirs, k \in Gens :
    LET y == Yielded(d, k)
        n == tail_start[d][k] IN
    /\ n = -1 => y = <<>>
    /\ n > 0 => (y # <<>> /\ y[1] = n)
    /\ \A i \in DOMAIN y : (i = 1 /\ n > 0 /\ y[i] = n) \/ y[i] > n

\* a Tailer started on a file of two lines has yielded the second and then an
\* appended third one
C13_Witness ==
  \E d \in Dirs, k \in Gens :
    tail_start[d][k] = 2 /\ Yielded(d, k) = <<2, 3>>

\* unit u is in tail's polling loop, or in log_parse's loop body for a line
\* that loop yielded
Polling(u) == u.pc \in {"t_stop", "t_read"} \/ (Alive(u) /\ u.resume = "t_stop")

\* C14: within one Tailer run the line replayed at startup is yielded exactly
\* once: polling starts at or after the end of the file as it was at startup,
\* and no later yield carries the replayed line's number.
C14_ReplayYieldedOnce ==
  \A d \in Dirs, k \in Gens :
    LET y == Yielded(d, k)
        n == tail_start[d][k] IN
    /\ Polling(unit[d][k]) => unit[d][k].pos >= n
    /\ n > 0 => Cardinality({i \in DOMAIN y : y[i] = n}) = 1

\* a Tailer that replayed a line polls and has yielded a further line
C14_Witness ==
  \E d \in Dirs, k \in Gens :
    /\ tail_start[d][k] > 0
    /\ Polling(unit[d][k])
    /\ Len(Yielded(d, k)) >= 2

\* C11: every line tail yields, at startup and when polling, is a whole
\* newline-terminated line.
C11_NoPartialLineYielded ==
  /\ \A d \in Dirs, k \in Gens :
       unit[d][k].pc = "p_line" => unit[d][k].part = "whole"
  /\ \A d \in Dirs : \A i \in DOMAIN delivered[d] : delivered[d][i].part = "whole"

\* C12: a Tailer yields at most one line while its stop flag is set; a live
\* Tailer whose flag is set is the one the scanner is joining; and the join
\* eventually returns, which it does only when that Tailer has ended.
C12_StopEndsTailer ==
  /\ [](\A d \in Dirs, k \in Gens :
         /\ unit[d][k].late <= 1
         /\ (unit[d][k].stop /\ Alive(unit[d][k])) =>
              (scanner[d].pc = "join" /\ scanner[d].parser = k))
  /\ \A d \in Dirs : (scanner[d].pc = "join") ~> (scanner[d].pc = "poll")

\* a Tailer has yielded a line after its flag was set, log_parse is through
\* with the line, and the scanner waits in join for the Tailer's next flag test
C12_Witness ==
  \E d \in Dirs, k \in Gens :
    /\ unit[d][k].stop /\ unit[d][k].late = 1
    /\ unit[d][k].pc = "t_stop"
    /\ scanner[d].pc = "join"
    /\ \E p \in DOMAIN posts : posts[p].gen = k /\ posts[p].idx = 2

\* C15: a read tail makes of a file that was removed raises.
C15_RemovedFileRaises ==
  [][\A d \in Dirs, k \in Gens :
       (unit[d][k].pc = "t_read" /\ unit[d][k].file \notin present[d]
          /\ unit'[d][k].pc # "t_read")
       => unit'[d][k].pc = "crashed"]_vars

\* the scanner of d polls with the parser thread it started last on curr
\* (or that thread has crashed), and curr is a newest file of the directory
OnNewest(d) ==
  LET c == scanner[d].curr
      u == unit[d][scanner[d].parser] IN
  /\ scanner[d].pc = "poll"
  /\ c \in present[d]
  /\ \A g \in present[d] : mtime[d][g] <= mtime[d][c]
  /\ u.pc = "crashed" \/ (Alive(u) /\ u.file = c)

C17_EmptyDirectoryEndsUnit ==
  [][\A d \in Dirs, k \in Gens :
       scanner[d].pc = "dead" =>
         (unit'[d][k] = unit[d][k] \/ ~Alive(unit'[d][k]))]_vars

\* the step ends the scanner of d or makes a parser thread of d die of an
\* exception
ErrorIn(d) ==
  \/ scanner[d].pc # "dead" /\ scanner'[d].pc = "dead"
  \/ \E k \in Gens : unit[d][k].pc # "crashed" /\ unit'[d][k].pc = "crashed"

\* C18: a step in which a directory's scanner quits or one of its parser
\* threads dies of an exception leaves the scanner and the parser threads of
\* every other directory (state, active file, position) as they were, and the
\* lock is never left held by a thread that has ended.
C18_ErrorStaysInItsDirectory ==
  /\ [][\A d \in Dirs : ErrorIn(d) =>
          \A e \in Dirs \ {d} : scanner'[e] = scanner[e] /\ unit'[e] = unit[e]]_vars
  /\ [](notification_lock # NoHolder =>
          Alive(unit[notification_lock[1]][notification_lock[2]]))

\* the parser thread of one directory died of a failed post, and the thread
\* of another directory posted after that and is alive
C18_Witness ==
  \E i, j \in DOMAIN posts :
    /\ i < j
    /\ posts[i].dir # posts[j].dir
    /\ ~posts[i].ok /\ unit[posts[i].dir][posts[i].gen].pc = "crashed"
    /\ posts[j].ok /\ Alive(unit[posts[j].dir][posts[j].gen])
    /\ scanner[posts[j].dir].pc = "poll"

\* ------------------------------------------------------- detector claims
\* notification types in the order of the claim's six checks
Order == <<"your_interview", "interview", "mention", "disconnect", "netsplit", "kick">>

\* C19: for every line the chain makes at most one notify call; when some
\* check holds on the line the call's type is that of the first check, in
\* the order interview-on-self, interview-on-other, mention, disconnect,
\* netsplit, kick, that holds; when none holds there is no call.
C19_FirstMatchingCheckOnly ==
  det.done =>
    LET c == CheckHolds(det.line)
        holding == {i \in 1..6 : c[i]} IN
    /\ Len(det.calls) <= 1
    /\ holding = {} => det.calls = <<>>
    /\ holding # {} =>
         det.calls = <<Order[CHOOSE i \in holding : \A j \in holding : i <= j]>>

\* a line on which the interview-on-other, mention and disconnect checks hold
\* was dispatched as interview only
C19_Witness ==
  /\ det.done
  /\ CheckHolds(det.line)[2] /\ CheckHolds(det.line)[3] /\ CheckHolds(det.line)[4]
  /\ ~CheckHolds(det.line)[1]
  /\ det.calls = <<"interview">>

\* log_parse is still between taking delivered line r of directory d and the
\* should_rate_limit call for it
BeforeAttempt(d, r) ==
  LET u == unit[d][r.gen] IN
  /\ u.pc \in {"db", "rl_lock", "rl_check"}
  /\ u.file = r.file /\ u.cur = r.idx

\* C20: every line log_parse took on which a trigger check holds gets its
\* notify call (an entry of attempts), with analytics on or off and whatever
\* the store calls for the line did.
C20_TriggerLineReachesNotify ==
  \A d \in Dirs : \A i \in DOMAIN delivered[d] :
    LET r == delivered[d][i] IN
    (Trigger(content[d][r.file][r.idx]) # None /\ ~BeforeAttempt(d, r)) =>
      \E a \in DOMAIN attempts :
        /\ attempts[a].dir = d /\ attempts[a].gen = r.gen
        /\ attempts[a].file = r.file /\ attempts[a].idx = r.idx

\* ------------------------------------------------------ dispatch claims
\* the positions of history h that belong to the line of attempt a
Of(h, a) == {i \in DOMAIN h : SameLine(h[i], a)}

\* the unit of attempt a is inside notify for a's line at one of the places pcs
NotifyAt(a, pcs) ==
  LET u == unit[a.dir][a.gen] IN
  u.pc \in pcs /\ u.file = a.file /\ u.cur = a.idx

\* C21 as stated: once notify is over for an accepted attempt there is one
\* transport call and, when the audit log is enabled, one audit record.
C21_AcceptedHasPostAndRecord ==
  \A i \in DOMAIN attempts :
    LET a == attempts[i] IN
    (a.ok /\ ~NotifyAt(a, {"rl_set", "post", "log_lock", "log_write"})) =>
      /\ Cardinality(Of(posts, a)) = 1
      /\ notif_log => Cardinality(Of(audit, a)) = 1

\* C21 amended: an accepted attempt makes exactly one transport call; when that
\* call has returned and the audit log is enabled it makes exactly one write,
\* after the call, and the write appends one record unless it fails; without
\* audit log there is no write; a suppressed attempt makes no transport call
\* and no write.
C21_OnePostThenOneWrite ==
  \A i \in DOMAIN attempts :
    LET a == attempts[i]
        P == Of(posts, a)
        W == Of(writes, a)
        R == Of(audit, a) IN
    /\ ~a.ok => (P = {} /\ W = {} /\ R = {})
    /\ Cardinality(P) <= 1 /\ Cardinality(W) <= 1
    /\ Cardinality(R) = Cardinality({w \in W : writes[w].ok})
    /\ W # {} => (notif_log /\ \E p \in P : posts[p].ok)
    /\ (a.ok /\ ~NotifyAt(a, {"rl_set", "post"})) => Cardinality(P) = 1
    /\ (notif_log /\ (\E p \in P : posts[p].ok)
          /\ ~NotifyAt(a, {"log_lock", "log_write"})) => Cardinality(W) = 1

\* an accepted mention with its post and its audit record, and a suppressed
\* mention after it
C21_Witness ==
  \E i, j \in DOMAIN attempts :
    /\ i < j
    /\ attempts[i].ok /\ ~attempts[j].ok
    /\ Of(audit, attempts[i]) # {}
    /\ \E p \in Of(posts, attempts[i]) : posts[p].ok
    /\ ~Alive(unit[attempts[j].dir][attempts[j].gen])
         \/ unit[attempts[j].dir][attempts[j].gen].pc \in {"t_stop", "t_read"}

\* the step is a failed write of the audit log by unit <<d, k>>
WriteFailedBy(d, k) ==
  /\ unit[d][k].pc = "log_write"
  /\ Len(writes') = Len(writes) + 1
  /\ ~writes'[Len(writes')].ok

\* C22: a failed write of the audit log leaves the unit alive and back in its
\* tail loop, leaves recent_notifications and the audit log as they were and
\* the lock free, and no attempt is written for more than once.
C22_AuditFailureContained ==
  /\ [][\A d \in Dirs, k \in Gens : WriteFailedBy(d, k) =>
          /\ Alive(unit'[d][k]) /\ unit'[d][k].pc = unit[d][k].resume
          /\ recent_notifications' = recent_notifications
          /\ audit' = audit
          /\ notification_lock' = NoHolder]_vars
  /\ [](\A i \in DOMAIN attempts : Cardinality(Of(writes, attempts[i])) <= 1)

\* after a failed write the unit of the other directory wrote its record and
\* the unit whose write failed is still alive
C22_Witness ==
  \E i, j \in DOMAIN writes :
    /\ i < j
    /\ ~writes[i].ok /\ writes[j].ok
    /\ writes[i].dir # writes[j].dir
    /\ Alive(unit[writes[i].dir][writes[i].gen])

\* C23: the mention check holds on a line exactly when the line as read
\* (markup not stripped) contains "<nick>:".
C23_MentionOnRawLine ==
  det.done =>
    (CheckHolds(det.line)[3] <=> Contains(det.line, <<"nick", ":">>))

\* the line carries the speaker tag of a bot nick
BotTagged(line) == \E b \in bot_nicks : Contains(line, <<b, ">">>)

\* C24: with --check-bot-nicks, a line dispatched as your_interview, interview
\* or kick carries the tag of a bot nick.
C24_ScopedTriggersNeedBotTag ==
  (det.done /\ check_bot_nicks /\ det.calls # <<>>
     /\ det.calls[1] \in {"your_interview", "interview", "kick"})
  => BotTagged(det.line)

\* the username that follows "Currently interviewing: " at position i is
\* args.nick and nothing more
SelfNamedAt(line, i) ==
  /\ line[i] = "ci"
  /\ i + 1 <= Len(line) /\ line[i + 1] = "nick"
  /\ i + 1 = Len(line) \/ line[i + 2] = " "

\* C25: a line is dispatched as your_interview only when the username after
\* "Currently interviewing: " is exactly args.nick.
C25_SelfOnlyOnExactNick ==
  (det.done /\ det.calls = <<"your_interview">>) =>
    \E i \in DOMAIN det.line : SelfNamedAt(det.line, i)

\* a ping timeout of n seconds, n being one or two number pieces
OtherTimeout(line) ==
  \E i \in DOMAIN line :
    /\ line[i] = "pt"
    /\ \/ /\ i + 2 <= Len(line)
          /\ line[i + 1] \in {"9", "1"} /\ line[i + 2] = "secs"
       \/ /\ i + 3 <= Len(line)
          /\ <<line[i + 1], line[i + 2]>> \in {"121", "9", "1"} \X {"121", "9", "1"}
          /\ line[i + 3] = "secs"

\* C26: a quit line is dispatched as netsplit exactly when it contains
\* "left IRC" and one of "*.net *.split" and "Ping timeout: 121 seconds"; with
\* "left IRC" and only ping timeouts of other durations it is not.
C26_NetsplitExactly ==
  det.done =>
    /\ det.calls = <<"netsplit">> <=>
          /\ Contains(det.line, <<"left">>)
          /\ \/ Contains(det.line, <<"split">>)
             \/ Contains(det.line, <<"pt", "121", "secs">>)
    /\ ( /\ Contains(det.line, <<"left">>) /\ OtherTimeout(det.line)
         /\ ~Contains(det.line, <<"split">>)
         /\ ~Contains(det.line, <<"pt", "121", "secs">>) )
       => det.calls = <<>>

\* "left IRC" with a ping timeout of 1121 seconds was not dispatched
C26_Witness ==
  /\ det.done
  /\ det.line = <<"left", "pt", "1", "121", "secs">>
  /\ det.calls = <<>>

\* the message between "(" and the closing ")" of a kick line
KickMessage(line) ==
  LET p == CHOOSE p \in DOMAIN line : \E i \in DOMAIN line : KickAt(line, i, p)
  IN SubSeq(line, p + 1, Len(line) - 1)

IsKickLine(line) == \E i, p \in DOMAIN line : KickAt(line, i, p)

\* the message contains the phrase in lower or upper case
Says(message, phrase) ==
  \E i \in DOMAIN message :
    message[i] \in (IF phrase = "congrats" THEN {"congrats", "Congrats"} ELSE {phrase})

\* the store calls of one operation
CallsOf(op) == SelectSeq(det.stored, LAMBDA c : c.op = op)

\* C27: on a kick line with analytics on, record_interview_outcome is called
\* with passed when the message says "congratulations" and "welcome to",
\* otherwise failed when it says "not passed the interview" or "you have not
\* passed", otherwise missed when it says "missed your interview", in any
\* case of letters; otherwise it is not called.
C27_OutcomeOfKickMessage ==
  (det.done /\ enable_analytics /\ IsKickLine(det.line)) =>
    LET m == KickMessage(det.line)
        outcomes == [i \in DOMAIN CallsOf("record_interview_outcome") |->
                       CallsOf("record_interview_outcome")[i].outcome]
    IN /\ (Says(m, "congrats") /\ Says(m, "welcome")) => outcomes = <<"passed">>
       /\ ( /\ ~(Says(m, "congrats") /\ Says(m, "welcome"))
            /\ Says(m, "notpassed") \/ Says(m, "younot") ) => outcomes = <<"failed">>
       /\ ( /\ ~(Says(m, "congrats") /\ Says(m, "welcome"))
            /\ ~(Says(m, "notpassed") \/ Says(m, "younot"))
            /\ Says(m, "missed") ) => outcomes = <<"missed">>
       /\ ( /\ ~(Says(m, "congrats") /\ Says(m, "welcome"))
            /\ ~(Says(m, "notpassed") \/ Says(m, "younot"))
            /\ ~Says(m, "missed") ) => det.stored = <<>>

\* "Congratulations", "welcome to" and "not passed the interview" in one
\* message were recorded as passed
C27_Witness ==
  /\ det.done /\ enable_analytics
  /\ IsKickLine(det.line)
  /\ KickMessage(det.line) = <<"Congrats", "welcome", "notpassed">>
  /\ Len(det.stored) = 1 /\ det.stored[1].outcome = "passed"
  /\ det.stored[1].username = <<"x">>

\* C28: with analytics on, a line that matches the start pattern makes one
\* record_interview_start and one record_queue_snapshot call, a kick line
\* with an outcome one record_interview_outcome call, each with the channel
\* of the file, whatever the chain dispatches; with analytics off no store
\* call is made.
C28_StoreCallsPerLine ==
  det.done =>
    /\ ~enable_analytics => det.stored = <<>>
    /\ \A i \in DOMAIN det.stored :
         det.stored[i].channel = channel_of(det.parent, det.name, det.raises)
    /\ (enable_analytics /\ parse_interview_start(det.line) # <<>>) =>
         /\ Len(CallsOf("record_interview_start")) = 1
         /\ Len(CallsOf("record_queue_snapshot")) = 1
    /\ (enable_analytics /\ parse_interview_outcome(det.line) # <<>>) =>
         Len(CallsOf("record_interview_outcome")) = 1

\* C29: the channel of a file is the name of its directory, unless that
\* name is empty or generic: then it is the file's name without its
\* extension; it is "unknown" when the names cannot be had, and never the
\* empty string.
C29_ChannelOfFile ==
  det.done =>
    /\ det.channel # <<"">>
    /\ det.raises => det.channel = <<"unknown">>
    /\ (~det.raises /\ det.parent \notin {<<"">>, <<"", "", "">>, <<"logs">>, <<"Channels">>})
         => det.channel = det.parent
    /\ (~det.raises /\ det.parent \in {<<"">>, <<"", "", "">>, <<"logs">>, <<"Channels">>})
         => /\ det.channel = SubSeq(det.name, 1, Len(det.channel))
            /\ Len(det.channel) \in {Len(det.name) - 1, Len(det.name)}
            /\ Len(det.channel) = Len(det.name) =>
                  \/ Len(det.name) = 1
                  \/ det.name[Len(det.name)] = ""
                  \/ SubSeq(det.name, 1, Len(det.name) - 1) = <<"">>

\* the file .log of a directory with an empty name got the channel .log
C29_Witness ==
  /\ det.done /\ ~det.raises
  /\ det.parent = <<"">> /\ det.name = <<"", "log">>
  /\ det.channel = <<"", "log">>

\* C30: recent_notifications has one entry per notification type and no
\* more; an attempt of a non-critical type made by the unit of one directory
\* less than rate_limit after an accepted attempt of that type by the unit of
\* another directory is suppressed, and every suppressed attempt has such an
\* accepted attempt, of whichever directory, before it.
C30_OneMapForAllDirectories ==
  /\ DOMAIN recent_notifications = NotifTypes
  /\ \A i, j \in DOMAIN attempts :
       (i < j /\ attempts[i].dir # attempts[j].dir
          /\ attempts[i].type = attempts[j].type
          /\ attempts[j].type \notin CriticalTypes
          /\ attempts[i].ok
          /\ attempts[j].t - attempts[i].t < rate_limit)
       => ~attempts[j].ok
  /\ \A j \in DOMAIN attempts :
       ~attempts[j].ok =>
         \E i \in 1..(j - 1) :
           /\ attempts[i].type = attempts[j].type /\ attempts[i].ok
           /\ attempts[j].t - attempts[i].t < rate_limit

\* a mention of one directory was suppressed by the accepted mention of the
\* other, its own directory having had none accepted
C30_Witness ==
  \E i, j \in DOMAIN attempts :
    /\ i < j /\ attempts[i].dir # attempts[j].dir
    /\ attempts[i].type = "mention" /\ attempts[j].type = "mention"
    /\ attempts[i].ok /\ ~attempts[j].ok
    /\ \A l \in 1..(j - 1) : attempts[l].dir = attempts[j].dir => ~attempts[l].ok

\* curr is in the directory and newer than every other file of it
CurrIsLatest(d) ==
  /\ scanner[d].curr \in present[d]
  /\ \A g \in present[d] \ {scanner[d].curr} : mtime[d][g] < mtime[d][scanner[d].curr]

\* C31: after the first, the scanner starts a parser thread only out of the
\* join that follows a poll which found a newest file other than curr, and on
\* that file; while curr is the newest file of the directory the scanner
\* stays as it is, whatever happens to the file's modification time and to
\* the parser thread.
C31_RestartOnlyOnPathChange ==
  [][\A d \in Dirs :
       LET s == scanner[d]
           t == scanner'[d] IN
       /\ (t.parser # s.parser /\ s.pc # "start") =>
            /\ s.pc = "join" /\ t.parser = s.parser + 1
            /\ unit'[d][t.parser].pc = "t_first"
            /\ unit'[d][t.parser].file = s.curr
       /\ (s.pc = "poll" /\ t # s /\ present[d] # {}) =>
            /\ t.pc = "join" /\ t.curr # s.curr
            /\ t.curr \in present[d]
            /\ \A g \in present[d] : mtime[d][g] <= mtime[d][t.curr]
            /\ \A k \in Gens : Alive(unit[d][k]) => unit'[d][k].stop
       /\ (s.pc = "poll" /\ CurrIsLatest(d)) => t = s]_vars

\* after one rotation the second parser thread has ended and its file, still
\* the newest, was touched: the scanner polls on with no third thread
C31_Witness ==
  \E d \in Dirs :
    /\ scanner[d].pc = "poll" /\ scanner[d].parser = 2
    /\ unit[d][2].pc = "crashed" /\ unit[d][3].pc = "unborn"
    /\ CurrIsLatest(d) /\ scanner[d].curr = "B"
    /\ Len(content[d]["B"]) = 1 /\ mtime[d]["B"] = 3
    /\ budget = 0

\* the unit <<d, k>> leaves requests.post, which returned or raised
PostEnds(d, k) == unit[d][k].pc = "post" /\ unit'[d][k].pc # "post"

\* C32: when a thread is in requests.post the map holds a time for the
\* notification's type that is not before the time its should_rate_limit call
\* read; the step in which the post returns or raises leaves the map as it
\* is; and an attempt of a non-critical type made less than rate_limit after
\* an accepted attempt whose post failed is suppressed.
C32_AcceptRecordedBeforePost ==
  /\ [](\A d \in Dirs, k \in Gens :
         unit[d][k].pc = "post" =>
           recent_notifications[unit[d][k].ntype] >= unit[d][k].ctime)
  /\ [][\A d \in Dirs, k \in Gens :
          PostEnds(d, k) => recent_notifications' = recent_notifications]_vars
  /\ [](\A p \in DOMAIN posts, i, j \in DOMAIN attempts :
         (~posts[p].ok /\ SameLine(attempts[i], posts[p]) /\ i < j
            /\ attempts[j].type = posts[p].type
            /\ posts[p].type \notin CriticalTypes
            /\ attempts[j].t - attempts[i].t < rate_limit)
         => ~attempts[j].ok)

\* the post of a mention failed and ended the first parser thread of a
\* directory; the mention of the thread started after it was suppressed
C32_Witness ==
  \E p \in DOMAIN posts, i, j \in DOMAIN attempts :
    /\ ~posts[p].ok /\ posts[p].type = "mention" /\ posts[p].gen = 1
    /\ SameLine(attempts[i], posts[p]) /\ attempts[i].ok
    /\ i < j /\ attempts[j].dir = posts[p].dir /\ attempts[j].gen = 2
    /\ attempts[j].type = "mention" /\ ~attempts[j].ok
    /\ \A l \in (i + 1)..(j - 1) : ~attempts[l].ok

\* delivered line r of directory d is the line tail replayed when parser
\* thread k started
ReplayOf(d, k, r) ==
  /\ r.gen = k /\ r.idx = tail_start[d][k]
  /\ \A o \in DOMAIN delivered[d] :
       delivered[d][o].gen = k => delivered[d][o].idx >= r.idx

\* C33: the last line of the file a parser thread starts on, first thread or
\* later, is taken by log_parse; when a trigger check holds on it, it gets
\* its notify call (an entry of attempts), and with analytics on and an event
\* on the line, its store call.
C33_ReplayedLineIsDispatched ==
  \A d \in Dirs, k \in Gens :
    LET u == unit[d][k] IN
    (tail_start[d][k] >= 1 /\ ~(u.pc = "p_line" /\ u.cur = tail_start[d][k])) =>
      \E i \in DOMAIN delivered[d] :
        LET r == delivered[d][i]
            line == content[d][r.file][r.idx] IN
        /\ ReplayOf(d, k, r)
        /\ Trigger(line) # None =>
             \/ BeforeAttempt(d, r)
             \/ \E a \in DOMAIN attempts :
                  /\ attempts[a].dir = d /\ attempts[a].gen = k
                  /\ attempts[a].file = r.file /\ attempts[a].idx = r.idx
        /\ (enable_analytics /\ Analytics(line) # None) =>
             \/ u.pc = "db" /\ u.cur = r.idx
             \/ \E c \in DOMAIN db_calls :
                  /\ db_calls[c].dir = d /\ db_calls[c].gen = k
                  /\ db_calls[c].file = r.file /\ db_calls[c].idx = r.idx

====
